---- MODULE Spec2Model ----
(***************************************************************************)
(* Notebook helper functions of Project/notebooks/functions.py: yesNo,     *)
(* downloadData, httpStatusClass, dataGroupby, countryDropdown and         *)
(* pltMovingAverage.  Every function is synchronous and keeps no state of  *)
(* its own, so each one is modelled as a call: the arguments and whatever  *)
(* the environment supplies are drawn when the call starts, and one action *)
(* runs the whole body.  Only downloadData touches state that outlives the *)
(* call (the directory and the output file).                               *)
(***************************************************************************)
EXTENDS Integers, Sequences, FiniteSets, TLC

VARIABLES
    pc,      \* "call": arguments bound, body not yet run; "done": body has run
    frame,   \* the locals of the function being run (arguments, inputs, results)
    disk     \* [isdir, file]: the directory `path` and the file downloadData writes

vars == <<pc, frame, disk>>

(***************************************************************************)
(* Bounds of the model.                                                    *)
(***************************************************************************)
MaxLen == 3        \* longest line typed at the yes/no prompt
MaxCode == 3       \* longest status-code string
MaxRows == 3       \* rows of a dataframe
MaxTop == 3        \* largest top-N
MaxSeries == 4     \* points of a timeseries
MaxValue == 2      \* largest value of a timeseries point
MaxWindow == 3     \* largest rolling window

(***************************************************************************)
(* Strings are sequences of one-character strings.                         *)
(***************************************************************************)
Chars == {"y", "Y", "n", "N", "x", "X", " "}

RECURSIVE StringsUpTo(_, _)
StringsUpTo(alphabet, n) ==
    IF n = 0 THEN {<<>>}
    ELSE LET shorter == StringsUpTo(alphabet, n - 1)
         IN  shorter \cup {Append(s, c) : s \in shorter, c \in alphabet}

\* str.lower() on one character
lowerChar(c) ==
    CASE c = "Y" -> "y"
      [] c = "N" -> "n"
      [] c = "X" -> "x"
      [] OTHER -> c

\* str.lower()
lower(s) == [i \in 1..Len(s) |-> lowerChar(s[i])]

isspace(c) == c = " "

\* str.strip(): drop the leading and the trailing whitespace
strip(s) ==
    LET keep == {i \in 1..Len(s) : ~isspace(s[i])}
    IN  IF keep = {} THEN <<>>
        ELSE LET first == CHOOSE i \in keep : \A j \in keep : i <= j
                 last == CHOOSE i \in keep : \A j \in keep : j <= i
             IN  SubSeq(s, first, last)

\* str.startswith(prefix)
startswith(s, prefix) ==
    /\ Len(prefix) <= Len(s)
    /\ SubSeq(s, 1, Len(prefix)) = prefix

(***************************************************************************)
(* yesNo(question, default_no): `typed` is the line input() returns.       *)
(***************************************************************************)
yesNoElseFalse(typed, default_no) ==
    LET default_answer == IF default_no THEN <<"n">> ELSE <<"y">>
        stripped == strip(lower(typed))
        answer == IF stripped = <<>> THEN default_answer ELSE stripped
    IN  IF answer[1] = "y" THEN TRUE
        ELSE FALSE

yesNoNoLower(typed, default_no) ==
    LET default_answer == IF default_no THEN <<"n">> ELSE <<"y">>
        stripped == strip(typed)
        answer == IF stripped = <<>> THEN default_answer ELSE stripped
    IN  IF answer[1] = "y" THEN TRUE
        ELSE IF answer[1] = "n" THEN FALSE
        ELSE IF default_no THEN FALSE ELSE TRUE

yesNo(typed, default_no) ==
    LET default_answer == IF default_no THEN <<"n">> ELSE <<"y">>
        stripped == strip(lower(typed))
        \* `x or default_answer`: the empty string is falsy
        answer == IF stripped = <<>> THEN default_answer ELSE stripped
    IN  IF answer[1] = "y" THEN TRUE
        ELSE IF answer[1] = "n" THEN FALSE
        ELSE IF default_no THEN FALSE ELSE TRUE

NoDisk == [isdir |-> FALSE, file |-> "absent"]

InitYesNo ==
    /\ pc = "call"
    /\ \E typed \in StringsUpTo(Chars, MaxLen), d \in BOOLEAN :
           frame = [typed |-> typed, default_no |-> d, ret |-> "unset"]
    /\ disk = NoDisk

CallYesNo ==
    /\ pc = "call"
    /\ frame' = [frame EXCEPT !.ret = yesNo(frame.typed, frame.default_no)]
    /\ pc' = "done"
    /\ UNCHANGED disk

SpecYesNo == InitYesNo /\ [][CallYesNo]_vars

\* the answer yesNo inspects: the typed line, lower-cased and stripped
Normalised == strip(lower(frame.typed))

\* C3 as stated: an unrecognised non-empty answer yields False whatever
\* default_no is.
C3_UnrecognisedIsFalse ==
    (pc = "done" /\ Normalised # <<>> /\ Normalised[1] \notin {"y", "n"})
        => frame.ret = FALSE

\* C3 amended: an unrecognised non-empty answer yields the default answer,
\* False when default_no is true and True when default_no is false.
C3_UnrecognisedIsDefault ==
    (pc = "done" /\ Normalised # <<>> /\ Normalised[1] \notin {"y", "n"})
        => frame.ret = ~frame.default_no

C3_Witness ==
    /\ pc = "done"
    /\ frame.typed = <<" ", "X", "y">>
    /\ frame.default_no = FALSE
    /\ frame.ret = TRUE

\* C4: an empty or whitespace-only line yields the default (False when
\* default_no, True otherwise); a line whose first character after
\* stripping and lower-casing is 'y' yields True and one whose first
\* character is 'n' yields False, whatever default_no and the rest are.
C4_DefaultYesNo ==
    pc = "done" =>
        /\ Normalised = <<>> => frame.ret = ~frame.default_no
        /\ (Normalised # <<>> /\ Normalised[1] = "y") => frame.ret = TRUE
        /\ (Normalised # <<>> /\ Normalised[1] = "n") => frame.ret = FALSE

C4_Witness ==
    /\ pc = "done"
    /\ frame.typed = <<" ", "Y", "n">>
    /\ frame.default_no = TRUE
    /\ frame.ret = TRUE

(***************************************************************************)
(* httpStatusClass(series): the chain of startswith tests; falling off the *)
(* end of the function returns None.                                       *)
(***************************************************************************)
CodeChars == {"0", "1", "2", "3", "4", "5", "6"}

httpStatusClassShifted(series) ==
    IF startswith(series, <<"1">>) THEN "Informational"
    ELSE IF startswith(series, <<"2">>) THEN "Success"
    ELSE IF startswith(series, <<"3">>) THEN "Redirection"
    ELSE IF startswith(series, <<"4">>) THEN "Server errors"
    ELSE IF startswith(series, <<"5">>) THEN "Server errors"
    ELSE "None"

httpStatusClass(series) ==
    IF startswith(series, <<"1">>) THEN "Informational"
    ELSE IF startswith(series, <<"2">>) THEN "Success"
    ELSE IF startswith(series, <<"3">>) THEN "Redirection"
    ELSE IF startswith(series, <<"4">>) THEN "Client errors"
    ELSE IF startswith(series, <<"5">>) THEN "Server errors"
    ELSE "None"

InitStatus ==
    /\ pc = "call"
    /\ \E series \in StringsUpTo(CodeChars, MaxCode) :
           frame = [series |-> series, ret |-> "unset"]
    /\ disk = NoDisk

CallStatus ==
    /\ pc = "call"
    /\ frame' = [frame EXCEPT !.ret = httpStatusClass(frame.series)]
    /\ pc' = "done"
    /\ UNCHANGED disk

SpecStatus == InitStatus /\ [][CallStatus]_vars

\* C7: the class depends on the first character alone: '1', '2', '3', '4',
\* '5' give Informational, Success, Redirection, Client errors, Server
\* errors, whatever characters follow.
C7_ClassOfFirstChar ==
    (pc = "done" /\ frame.series # <<>>) =>
        /\ frame.series[1] = "1" => frame.ret = "Informational"
        /\ frame.series[1] = "2" => frame.ret = "Success"
        /\ frame.series[1] = "3" => frame.ret = "Redirection"
        /\ frame.series[1] = "4" => frame.ret = "Client errors"
        /\ frame.series[1] = "5" => frame.ret = "Server errors"

C7_Witness ==
    /\ pc = "done"
    /\ frame.series = <<"4", "0", "4">>
    /\ frame.ret = "Client errors"

(***************************************************************************)
(* downloadData(search_user, app, searchname, path, output_file, ...).     *)
(* The environment supplies the line typed at the prompt, what             *)
(* requests.post does (a response with a status, or an exception), the     *)
(* response text and whether a file-system call fails.  `events` lists     *)
(* what the call did, in order.                                            *)
(***************************************************************************)
Texts == {"text1", "text2"}
StatusCodes == {200, 204, 304, 404, 503}

\* lines typed at the "Do you want to download new data?" prompt
Answers == {<<>>, <<" ">>, <<"y">>, <<"Y", "e", "s">>, <<"n">>, <<"N", "o">>, <<"x">>}

\* exception classes by the classes they are instances of
Bases(exc) ==
    CASE exc = "HTTPError" -> {"HTTPError", "RequestException", "OSError"}
      [] exc = "ConnectionError" -> {"ConnectionError", "RequestException", "OSError"}
      [] exc = "ConnectTimeout" ->
             {"ConnectTimeout", "ConnectionError", "Timeout", "RequestException", "OSError"}
      [] exc = "ReadTimeout" -> {"ReadTimeout", "Timeout", "RequestException", "OSError"}
      [] exc = "TooManyRedirects" -> {"TooManyRedirects", "RequestException", "OSError"}
      [] exc = "PermissionError" -> {"PermissionError", "OSError"}

PostExceptions == {"ConnectionError", "ConnectTimeout", "ReadTimeout", "TooManyRedirects"}

PostOutcomes ==
    [kind : {"response"}, status : StatusCodes, exc : {"none"}]
        \cup [kind : {"raise"}, status : {0}, exc : PostExceptions]

FsFailures == {"none", "makedirs", "open", "write"}

Disks ==
    {d \in [isdir : BOOLEAN, file : {"absent", ""} \cup Texts] :
         d.file # "absent" => d.isdir}

\* response.raise_for_status(): TRUE when it raises HTTPError
raise_for_statusNever(status) == FALSE

raise_for_status(status) == 400 <= status /\ status < 600

Say(st, what) == [st EXCEPT !.events = Append(@, what)]

Raise(st, exc) == [st EXCEPT !.exc = exc]

\* the except clauses, tried in order; an exception none matches propagates
Except(st) ==
    IF st.exc = "none" THEN st
    ELSE IF "HTTPError" \in Bases(st.exc)
        THEN Say(Raise(st, "none"), "print:HTTP Error")
    ELSE IF "ConnectionError" \in Bases(st.exc)
        THEN Say(Raise(st, "none"), "print:Error Connecting")
    ELSE IF "Timeout" \in Bases(st.exc)
        THEN Say(Raise(st, "none"), "print:Timeout Error")
    ELSE IF "RequestException" \in Bases(st.exc)
        THEN Say(Raise(st, "none"), "print:OOps")
    ELSE st

\* requests.post(...) and response.raise_for_status()
Post(st, post) ==
    LET sent == Say(Say(st, "print:Trying to connect"), "post")
    IN  IF post.kind = "raise" THEN Raise(sent, post.exc)
        ELSE IF raise_for_status(post.status) THEN Raise(sent, "HTTPError")
        ELSE Say(Say(sent, "print:HTTP Status is OK"), "print:Trying to download")

\* os.path.isdir(path), os.makedirs(path)
CheckPath(st, fsfail) ==
    IF st.exc # "none" THEN st
    ELSE IF ~st.disk.isdir
        THEN IF fsfail = "makedirs" THEN Raise(st, "PermissionError")
             ELSE Say(Say([st EXCEPT !.disk.isdir = TRUE], "makedirs"),
                      "print:created directory")
    ELSE Say(st, "print:already exists")

\* with open(filename, "w") as f: f.write(response.text)
SaveFile(st, fsfail, text) ==
    IF st.exc # "none" THEN st
    ELSE IF fsfail = "open" THEN Raise(st, "PermissionError")
    ELSE LET opened == Say([st EXCEPT !.disk.file = ""], "open")
         IN  IF fsfail = "write" THEN Raise(opened, "PermissionError")
             ELSE Say([opened EXCEPT !.disk.file = text], "write")

\* the progress bar and the closing messages
Finish(st) ==
    IF st.exc # "none" THEN st
    ELSE Say(Say(Say(st, "tnrange"), "print:done"), "print:Happy analyzing")

downloadData(d, typed, post, fsfail, text) ==
    LET st0 == [disk |-> d, events |-> <<>>, exc |-> "none"]
        confirmed == yesNo(typed, TRUE)
        asked == Say(Say(Say(st0, "print:Enter Splunk credentials"),
                         "input:username"), "getpass:password")
        tried == Finish(SaveFile(CheckPath(Post(asked, post), fsfail), fsfail, text))
        st == IF confirmed THEN Except(tried)
              ELSE Say(st0, "print:New data will not be downloaded")
    IN  [confirmed |-> confirmed, disk |-> st.disk, events |-> st.events,
         raised |-> st.exc]

InitDownload ==
    /\ pc = "call"
    /\ disk \in Disks
    /\ frame = [events |-> <<>>]

CallDownload ==
    /\ \E typed \in Answers, post \in PostOutcomes,
          fsfail \in FsFailures, text \in Texts :
           LET r == downloadData(disk, typed, post, fsfail, text)
           IN  /\ frame' = [typed |-> typed, post |-> post,
                            fsfail |-> fsfail, text |-> text, disk0 |-> disk,
                            confirmed |-> r.confirmed, events |-> r.events,
                            raised |-> r.raised]
               /\ disk' = r.disk
    /\ pc' = "done"

SpecDownload == InitDownload /\ [][CallDownload]_vars

Did(what) == \E i \in 1..Len(frame.events) : frame.events[i] = what

RequestFailed ==
    \/ frame.post.kind = "raise"
    \/ (400 <= frame.post.status /\ frame.post.status < 600)

Touched == Did("makedirs") \/ Did("open") \/ Did("write") \/ disk # frame.disk0

\* C1 as stated: credentials, POST, directory and file only after a true
\* confirmation; the file (and the 'done' message) only after a POST that
\* ended with a success status, 2xx; nothing is created, written or
\* modified when the confirmation is declined or the request fails.
C1_OnlyOnSuccess ==
    pc = "done" =>
        /\ (Did("input:username") \/ Did("getpass:password") \/ Did("post") \/ Touched)
               => frame.confirmed
        /\ (Did("write") \/ Did("print:done") \/ disk.file # frame.disk0.file)
               => /\ frame.confirmed
                  /\ frame.post.kind = "response"
                  /\ 200 <= frame.post.status /\ frame.post.status < 300
        /\ (~frame.confirmed \/ RequestFailed) => ~Touched

\* C1 amended: as C1, except that the file is written after any POST that
\* returned a status which is no HTTP error status (below 400: a final 3xx
\* response as well as 2xx).
C1_OnlyWithoutError ==
    pc = "done" =>
        /\ (Did("input:username") \/ Did("getpass:password") \/ Did("post") \/ Touched)
               => frame.confirmed
        /\ (Did("write") \/ Did("print:done") \/ disk.file # frame.disk0.file)
               => /\ frame.confirmed
                  /\ frame.post.kind = "response"
                  /\ frame.post.status < 400
        /\ (~frame.confirmed \/ RequestFailed) => ~Touched

C1_Witness ==
    /\ pc = "done"
    /\ frame.confirmed
    /\ frame.post.kind = "response" /\ frame.post.status = 404
    /\ frame.disk0.isdir /\ frame.disk0.file = "text1"
    /\ disk = frame.disk0

\* C2 as stated: once confirmation is given, whatever the request and the
\* steps after it do, the call returns normally: no exception leaves it.
C2_NoExceptionEscapes ==
    (pc = "done" /\ frame.confirmed) => frame.raised = "none"

(***************************************************************************)
(* dataGroupby(df, by, top).  A dataframe is a sequence of rows with the   *)
(* columns country_short and city; "NaN" is a missing value.               *)
(***************************************************************************)
Countries == {"NL", "US", "DE"}
Cities == {"Amsterdam", "NYC"}
Rows == [country_short : Countries \cup {"NaN"}, city : Cities]

RECURSIVE FramesUpTo(_)
FramesUpTo(n) ==
    IF n = 0 THEN {<<>>}
    ELSE LET shorter == FramesUpTo(n - 1)
         IN  shorter \cup {Append(f, r) : f \in shorter, r \in Rows}

\* df.groupby(by).size(): the rows of each key; rows whose key is missing
\* form no group (dropna defaults to True)
size(df, by) ==
    LET keys == {df[i][by] : i \in 1..Len(df)} \ {"NaN"}
    IN  [k \in keys |-> Cardinality({i \in 1..Len(df) : df[i][by] = k})]

\* the orders of the groups a sort on their sizes can give: the sort is not
\* stable, so groups of equal size come in any order
Orders(sz, ascending) ==
    LET n == Cardinality(DOMAIN sz)
    IN  {o \in [1..n -> DOMAIN sz] :
            /\ \A i, j \in 1..n : i # j => o[i] # o[j]
            /\ \A i, j \in 1..n : i < j =>
                   IF ascending THEN sz[o[i]] <= sz[o[j]]
                   ELSE sz[o[i]] >= sz[o[j]]}

Entries(sz, o) == [i \in DOMAIN o |-> [key |-> o[i], count |-> sz[o[i]]]]

\* Series.sort_values(ascending=False)
sort_valuesAscending(sz) ==
    {Entries(sz, o) : o \in Orders(sz, TRUE)}

sort_values(sz) ==
    {Entries(sz, o) : o \in Orders(sz, FALSE)}

\* s[:top], with Python's meaning of a negative stop
sliceOneMore(s, top) ==
    LET stop == IF top + 1 >= 0 THEN top + 1 ELSE Len(s) + top + 1
        n == IF stop < 0 THEN 0 ELSE IF stop > Len(s) THEN Len(s) ELSE stop
    IN  SubSeq(s, 1, n)

slice(s, top) ==
    LET stop == IF top >= 0 THEN top ELSE Len(s) + top
        n == IF stop < 0 THEN 0 ELSE IF stop > Len(s) THEN Len(s) ELSE stop
    IN  SubSeq(s, 1, n)

\* the tables dataGroupby can return
dataGroupby(df, by, top) == {slice(s, top) : s \in sort_values(size(df, by))}

InitGroupby ==
    /\ pc = "call"
    /\ \E df \in FramesUpTo(MaxRows), by \in {"country_short", "city"},
          top \in -1..MaxTop :
           frame = [df |-> df, by |-> by, top |-> top, ret |-> "unset"]
    /\ disk = NoDisk

CallGroupby ==
    /\ pc = "call"
    /\ \E data \in dataGroupby(frame.df, frame.by, frame.top) :
           frame' = [frame EXCEPT !.ret = data]
    /\ pc' = "done"
    /\ UNCHANGED disk

SpecGroupby == InitGroupby /\ [][CallGroupby]_vars

\* the rows of the input that carry key k in the grouped column
RowsOf(k) == {i \in 1..Len(frame.df) : frame.df[i][frame.by] = k}

Included == {frame.ret[i].key : i \in 1..Len(frame.ret)}

\* the groups of the input that the returned table leaves out
Omitted == ({frame.df[i][frame.by] : i \in 1..Len(frame.df)} \ {"NaN"}) \ Included

\* C5: for n >= 0 the table has at most n entries, every entry's count is
\* the number of input rows with its key, the counts never increase down
\* the table, and no group left out has a higher count than a group kept;
\* rows NL, NL, US grouped by country with n = 2 give [(NL, 2), (US, 1)].
C5_TopN ==
    (pc = "done" /\ frame.top >= 0) =>
        /\ Len(frame.ret) <= frame.top
        /\ \A i \in 1..Len(frame.ret) :
               frame.ret[i].count = Cardinality(RowsOf(frame.ret[i].key))
        /\ \A i, j \in 1..Len(frame.ret) :
               i < j => frame.ret[i].count >= frame.ret[j].count
        /\ \A k \in Omitted : \A i \in 1..Len(frame.ret) :
               Cardinality(RowsOf(k)) <= frame.ret[i].count
        /\ ( /\ [i \in 1..Len(frame.df) |-> frame.df[i].country_short]
                    = <<"NL", "NL", "US">>
             /\ frame.by = "country_short"
             /\ frame.top = 2 )
               => frame.ret = << [key |-> "NL", count |-> 2],
                                 [key |-> "US", count |-> 1] >>

C5_Witness ==
    /\ pc = "done"
    /\ frame.by = "country_short"
    /\ frame.top = 2
    /\ Len(frame.df) = 3
    /\ [i \in 1..3 |-> frame.df[i].country_short] = <<"NL", "NL", "US">>
    /\ frame.ret = <<[key |-> "NL", count |-> 2], [key |-> "US", count |-> 1]>>

\* the rows of all the groups left out, i.e. the sum of their counts
OmittedRows == UNION {RowsOf(k) : k \in Omitted}

\* C6 as stated: for n >= 1 with a group included, the counts of the groups
\* left out sum to no more than the smallest count kept.
C6_OmittedSumBelowSmallest ==
    (pc = "done" /\ frame.top >= 1 /\ Len(frame.ret) >= 1) =>
        \A i \in 1..Len(frame.ret) :
            Cardinality(OmittedRows) <= frame.ret[i].count

\* C6 amended: for n >= 1 with a group included, the count of each group
\* left out, taken alone, is no more than the smallest count kept.
C6_EachOmittedBelowSmallest ==
    (pc = "done" /\ frame.top >= 1 /\ Len(frame.ret) >= 1) =>
        \A k \in Omitted :
            Cardinality(RowsOf(k)) <= frame.ret[Len(frame.ret)].count

C6_Witness ==
    /\ pc = "done"
    /\ frame.by = "country_short"
    /\ frame.top = 1
    /\ Len(frame.df) = 3
    /\ [i \in 1..3 |-> frame.df[i].country_short] = <<"US", "NL", "NL">>
    /\ frame.ret = <<[key |-> "NL", count |-> 2]>>
    /\ Omitted = {"US"}

(***************************************************************************)
(* countryDropdown(df, Country, Top): the colours of the country bars.     *)
(***************************************************************************)
static_color == "#38a3d8"
selected_color == "orange"

\* df[df['country_short'] == Country]
RECURSIVE SelectCountry(_, _)
SelectCountry(df, Country) ==
    IF df = <<>> THEN <<>>
    ELSE IF Head(df).country_short = Country
        THEN <<Head(df)>> \o SelectCountry(Tail(df), Country)
    ELSE SelectCountry(Tail(df), Country)

\* the plots countryDropdown can draw: the city table, the country table and
\* the palette of the country bars; data_country.loc[Country] raises
\* KeyError when Country is no row of the country table
countryDropdown(df, Country, Top) ==
    LET drawn(data, data_country, clrs) ==
            [raised |-> "none", data |-> data, data_country |-> data_country,
             clrs |-> clrs]
        failed(data, data_country) ==
            [raised |-> "KeyError", data |-> data, data_country |-> data_country,
             clrs |-> <<>>]
        keys(t) == {t[i].key : i \in 1..Len(t)}
        loc(t, k) == t[CHOOSE i \in 1..Len(t) : t[i].key = k]
    IN  UNION {
          IF Country = "# All"
          THEN {drawn(data, data_country,
                      [i \in 1..Len(data_country) |-> static_color]) :
                   data \in dataGroupby(df, "city", Top)}
          ELSE {IF Country \notin keys(data_country)
                THEN failed(data, data_country)
                ELSE drawn(data, data_country,
                           [i \in 1..Len(data_country) |->
                               IF data_country[i].count
                                      = loc(data_country, Country).count
                               THEN selected_color ELSE static_color]) :
                   data \in dataGroupby(SelectCountry(df, Country), "city", Top)}
          : data_country \in dataGroupby(df, "country_short", Top)}

InitDropdown ==
    /\ pc = "call"
    /\ \E df \in FramesUpTo(MaxRows), Country \in Countries \cup {"# All"},
          Top \in 1..MaxTop :
           frame = [df |-> df, Country |-> Country, Top |-> Top, fig |-> "unset"]
    /\ disk = NoDisk

CallDropdown ==
    /\ pc = "call"
    /\ \E fig \in countryDropdown(frame.df, frame.Country, frame.Top) :
           frame' = [frame EXCEPT !.fig = fig]
    /\ pc' = "done"
    /\ UNCHANGED disk

SpecDropdown == InitDropdown /\ [][CallDropdown]_vars

\* C9 as stated: with a selected country that is a row of the top-N
\* country table, the bar of that country and no other gets the highlight
\* colour and the rest the base colour; with the sentinel every bar gets
\* the base colour.
C9_OnlySelectedHighlighted ==
    (pc = "done" /\ frame.fig.raised = "none") =>
        \A i \in 1..Len(frame.fig.data_country) :
            frame.fig.clrs[i] =
                IF /\ frame.Country # "# All"
                   /\ frame.fig.data_country[i].key = frame.Country
                THEN selected_color ELSE static_color

(***************************************************************************)
(* pltMovingAverage(timeseries, window, measure, madType, plotBounds,      *)
(* plotOutlier).  A timeseries is a sequence of integers (one column, no   *)
(* missing values).  Means and medians are fractions [num, den], den > 0,  *)
(* and nan marks a missing value.                                          *)
(***************************************************************************)
NaN == [nan |-> TRUE, num |-> 0, den |-> 1]
Frac(num, den) == [nan |-> FALSE, num |-> num, den |-> den]

Abs(x) == IF x < 0 THEN -x ELSE x

RECURSIVE SumOf(_)
SumOf(s) == IF s = <<>> THEN 0 ELSE Head(s) + SumOf(Tail(s))

\* the k-th smallest element of s
KthSmallest(s, k) ==
    CHOOSE v \in {s[i] : i \in 1..Len(s)} :
        /\ Cardinality({i \in 1..Len(s) : s[i] < v}) < k
        /\ Cardinality({i \in 1..Len(s) : s[i] <= v}) >= k

\* twice the median of s: the middle element, or the mean of the two
\* middle elements of an even number
TwiceMedian(s) ==
    IF Len(s) % 2 = 1 THEN 2 * KthSmallest(s, (Len(s) + 1) \div 2)
    ELSE KthSmallest(s, Len(s) \div 2) + KthSmallest(s, Len(s) \div 2 + 1)

\* timeseries.rolling(window=window).mean() / .median(): the measure of the
\* `window` points ending at i, missing until `window` points are there
rolling(timeseries, window, measure) ==
    [i \in 1..Len(timeseries) |->
        IF i < window THEN NaN
        ELSE LET w == SubSeq(timeseries, i - window + 1, i)
             IN  IF measure = "mean" THEN Frac(SumOf(w), window)
                 ELSE Frac(TwiceMedian(w), 2)]

\* timeseries.mad(): the mean of the absolute deviations from the mean
MeanAbsDeviation(timeseries) ==
    LET n == Len(timeseries)
        total == SumOf(timeseries)
    IN  Frac(SumOf([i \in 1..n |-> Abs(n * timeseries[i] - total)]), n * n)

\* stats.median_abs_deviation(timeseries): the median of the absolute
\* deviations from the median
MedianAbsDeviation(timeseries) ==
    LET n == Len(timeseries)
        m2 == TwiceMedian(timeseries)
    IN  Frac(TwiceMedian([i \in 1..n |-> Abs(2 * timeseries[i] - m2)]), 4)

\* rolling_measure - ts_mad and rolling_measure + ts_mad, point by point
Minus(a, b) ==
    IF a.nan \/ b.nan THEN NaN
    ELSE Frac(a.num * b.den - b.num * a.den, a.den * b.den)

Plus(a, b) ==
    IF a.nan \/ b.nan THEN NaN
    ELSE Frac(a.num * b.den + b.num * a.den, a.den * b.den)

\* timeseries < bound and timeseries > bound at one point: a comparison
\* with a missing value is False
lessOrEqual(x, bound) == ~bound.nan /\ x * bound.den <= bound.num

less(x, bound) == ~bound.nan /\ x * bound.den < bound.num

greater(x, bound) == ~bound.nan /\ x * bound.den > bound.num

\* outliers[mask] = timeseries[mask]
Assign(outliers, mask, timeseries) ==
    [i \in 1..Len(outliers) |->
        IF mask[i] THEN Frac(timeseries[i], 1) ELSE outliers[i]]

\* timeseries[window:], as the points it keeps
actualValues(timeseries, window) ==
    [i \in (window + 1)..Len(timeseries) |-> timeseries[i]]

Valid == {"mean", "median"}

pltMovingAverage(timeseries, window, measure, madType, plotBounds, plotOutlier) ==
    LET n == Len(timeseries)
        rolling_measure == rolling(timeseries, window, measure)
        ts_mad == IF madType = "mean" THEN MeanAbsDeviation(timeseries)
                  ELSE MedianAbsDeviation(timeseries)
        lower_bound == [i \in 1..n |-> Minus(rolling_measure[i], ts_mad)]
        upper_bound == [i \in 1..n |-> Plus(rolling_measure[i], ts_mad)]
        empty == [i \in 1..n |-> NaN]
        below == Assign(empty,
                        [i \in 1..n |-> less(timeseries[i], lower_bound[i])],
                        timeseries)
        outliers == Assign(below,
                           [i \in 1..n |-> greater(timeseries[i], upper_bound[i])],
                           timeseries)
        n_outliers == Cardinality({i \in 1..n : ~outliers[i].nan})
    IN  IF measure \notin Valid \/ madType \notin Valid
        THEN [raised |-> "ValueError", rolling_measure |-> <<>>, actual |-> <<>>,
              ts_mad |-> NaN, lower_bound |-> <<>>, upper_bound |-> <<>>,
              outliers |-> <<>>,
              title |-> [text |-> "none", window |-> 0, n_outliers |-> -1]]
        ELSE [raised |-> "none",
              rolling_measure |-> rolling_measure,
              actual |-> actualValues(timeseries, window),
              ts_mad |-> IF plotBounds THEN ts_mad ELSE NaN,
              lower_bound |-> IF plotBounds THEN lower_bound ELSE <<>>,
              upper_bound |-> IF plotBounds THEN upper_bound ELSE <<>>,
              outliers |-> IF plotBounds /\ plotOutlier THEN outliers ELSE <<>>,
              title |-> IF plotBounds /\ plotOutlier
                        THEN [text |-> measure, window |-> window,
                              n_outliers |-> n_outliers]
                        ELSE [text |-> "average", window |-> window,
                              n_outliers |-> -1]]

RECURSIVE SeriesUpTo(_)
SeriesUpTo(n) ==
    IF n = 0 THEN {<<>>}
    ELSE LET shorter == SeriesUpTo(n - 1)
         IN  shorter \cup {Append(s, v) : s \in shorter, v \in 0..MaxValue}

InitMovingAverage ==
    /\ pc = "call"
    /\ \E timeseries \in SeriesUpTo(MaxSeries) \ {<<>>}, window \in 1..MaxWindow,
          measure \in Valid \cup {"bogus"}, madType \in Valid \cup {"bogus"},
          plotBounds \in BOOLEAN, plotOutlier \in BOOLEAN :
           frame = [timeseries |-> timeseries, window |-> window,
                    measure |-> measure, madType |-> madType,
                    plotBounds |-> plotBounds, plotOutlier |-> plotOutlier,
                    fig |-> "unset"]
    /\ disk = NoDisk

CallMovingAverage ==
    /\ pc = "call"
    /\ frame' = [frame EXCEPT !.fig =
                    pltMovingAverage(frame.timeseries, frame.window, frame.measure,
                                     frame.madType, frame.plotBounds,
                                     frame.plotOutlier)]
    /\ pc' = "done"
    /\ UNCHANGED disk

SpecMovingAverage == InitMovingAverage /\ [][CallMovingAverage]_vars

Points == 1..Len(frame.timeseries)

\* the points flagged as outliers
Flagged == {i \in Points : ~frame.fig.outliers[i].nan}

\* the points whose value is strictly below rolling - deviation or strictly
\* above rolling + deviation at their own timestamp (x < r - d as
\* x * rd * dd < rn * dd - dn * rd for r = rn/rd and d = dn/dd)
OutsideBand ==
    LET d == frame.fig.ts_mad
    IN  {i \in Points :
            LET r == frame.fig.rolling_measure[i]
                x == frame.timeseries[i] * r.den * d.den
            IN  /\ ~r.nan
                /\ \/ x < r.num * d.den - d.num * r.den
                   \/ x > r.num * d.den + d.num * r.den}

\* C8: with the bounds and the outliers both shown, the flagged points are
\* exactly the points of the series strictly outside rolling +/- deviation
\* at their own timestamp, each shown with its own value, and the title
\* reports how many they are; a series with one point outside the band has
\* exactly that point flagged.
C8_OutliersAreThePointsOutside ==
    (pc = "done" /\ frame.fig.raised = "none"
        /\ frame.plotBounds /\ frame.plotOutlier) =>
        /\ Flagged = OutsideBand
        /\ \A i \in Flagged :
               frame.fig.outliers[i] = Frac(frame.timeseries[i], 1)
        /\ frame.fig.title.n_outliers = Cardinality(OutsideBand)
        /\ ~frame.fig.ts_mad.nan

C8_Witness ==
    /\ pc = "done"
    /\ frame.timeseries = <<0, 0, 0, 2>>
    /\ frame.window = 2
    /\ frame.measure = "mean" /\ frame.madType = "mean"
    /\ frame.plotBounds /\ frame.plotOutlier
    /\ OutsideBand = {4}
    /\ Flagged = {4}
    /\ frame.fig.title.n_outliers = 1

\* the points left out of the "Actual values" line
Excluded == Points \ DOMAIN frame.fig.actual

\* the points at which the rolling measure is missing
Undefined == {i \in Points : frame.fig.rolling_measure[i].nan}

\* C10 as stated: for 1 <= window <= length, the points left out of the
\* "Actual values" line are exactly the points where the rolling measure is
\* missing, and every point with a rolling value is on the line.
C10_ExcludedAreTheUndefined ==
    (pc = "done" /\ frame.fig.raised = "none"
        /\ 1 <= frame.window /\ frame.window <= Len(frame.timeseries)) =>
        /\ Excluded = Undefined
        /\ \A i \in Points : ~frame.fig.rolling_measure[i].nan
               => i \in DOMAIN frame.fig.actual

====
